---- MODULE Spec2Model ----
(***************************************************************************)
(* Model of the social_media_api project: the follow / like / comment      *)
(* handlers of accounts/views.py and posts/views.py over the tables        *)
(* declared in accounts/models.py, posts/models.py and                     *)
(* notifications/models.py.                                                *)
(*                                                                         *)
(* Every table is kept as a collection that can hold duplicate rows, so    *)
(* that uniqueness is something the handlers and constraints establish.    *)
(* The database runs in autocommit mode (no ATOMIC_REQUESTS and no         *)
(* transaction.atomic anywhere in the sources): a write made by a handler  *)
(* stays even when the handler later ends in an error.                     *)
(*                                                                         *)
(* The post views of the blog application (django_blog/blog/views.py) are  *)
(* modelled next to it over tables of their own.                           *)
(***************************************************************************)
EXTENDS Integers, Sequences, FiniteSets, Bags, TLC

\* ---------------------------------------------------------------- bounds
NumUsers == 2
MaxPosts == 1
MaxNotifs == 2
MaxComments == 1
NumReqs == 3

Users == 1..NumUsers
PostIds == 1..MaxPosts
\* ids a request may name in a URL or a body: every id ever issued plus one
\* that is never issued
AbsentId == 0
UrlPostIds == PostIds \cup {AbsentId}
UrlUserIds == Users \cup {AbsentId}
\* request bodies: title/content of a post, abstracted to a version tag
Contents == {"a", "b"}
\* the 'post' key of a comment body: an id, or the key left out
Missing == -1
BodyPostIds == UrlPostIds \cup {Missing}
\* the 'author' key of a post or comment body: a user id, or the key left out
BodyAuthors == Users \cup {Missing}

VARIABLES
  posts,          \* Post table: id -> [author, content]
  nextPostId,     \* AUTOINCREMENT counter of the Post table
  likes,          \* Like table: bag of [user, post] rows
  follows,        \* followers M2M through table: bag of [from, to] rows
  comments,       \* Comment table: sequence of [id, post, author]
  nextCommentId,  \* AUTOINCREMENT counter of the Comment table
  notifications,  \* Notification table in insertion order
  resp,           \* the last response sent
  reqs,           \* like requests in flight (concurrent specification)
  users,          \* CustomUser table: the ids of the registered users
  blogPosts,      \* blog application, Post table: id -> [author, content]
  nextBlogPostId  \* blog application, AutoField counter of the Post table

vars == <<posts, nextPostId, likes, follows, comments, nextCommentId,
          notifications, resp, reqs, users, blogPosts, nextBlogPostId>>

\* the tables of the social media API
db == <<posts, nextPostId, likes, follows, comments, nextCommentId,
        notifications, users>>

\* the tables of the blog application
blogdb == <<blogPosts, nextBlogPostId>>

\* ------------------------------------------------------------ responses
HTTP_200_OK == 200
HTTP_201_CREATED == 201
HTTP_204_NO_CONTENT == 204
HTTP_302_FOUND == 302
HTTP_400_BAD_REQUEST == 400
HTTP_401_UNAUTHORIZED == 401
HTTP_403_FORBIDDEN == 403
HTTP_404_NOT_FOUND == 404
HTTP_500_SERVER_ERROR == 500

Response(op, user, target, status, detail) ==
  [op |-> op, user |-> user, target |-> target, status |-> status,
   detail |-> detail]

NoResponse == Response("none", 0, 0, 0, "")

\* ------------------------------------------------------------ the tables
PostExists(ps, p) == p \in DOMAIN ps

\* Like.Meta.unique_together = ('user', 'post'): the INSERT of a row that
\* is already in the table raises IntegrityError
LikeRow(u, p) == [user |-> u, post |-> p]

HasLike(ls, u, p) == BagIn(LikeRow(u, p), ls)

UniqueTogetherOff(ls, u, p) == FALSE

UniqueTogetherViolated(ls, u, p) == HasLike(ls, u, p)

\* Like.objects.filter(post=post, user=user).delete(): removes every
\* matching row and returns how many there were
LikeDeletedCount(ls, u, p) == CopiesIn(LikeRow(u, p), ls)

LikeDeleteNothing(ls, u, p) == ls

LikeDeleteAllOfUser(ls, u, p) ==
  [r \in {x \in DOMAIN ls : x.user # u} |-> ls[r]]

LikeDelete(ls, u, p) ==
  [r \in (DOMAIN ls) \ {LikeRow(u, p)} |-> ls[r]]

\* on_delete=CASCADE of Like.post and Comment.post
CascadeLikesOff(ls, p) == ls

CascadeLikes(ls, p) ==
  [r \in {x \in DOMAIN ls : x.post # p} |-> ls[r]]

CascadeComments(cs, p) == SelectSeq(cs, LAMBDA c : c.post # p)

\* Notification.objects.create(recipient, actor, verb, target); is_read
\* defaults to False; target is the generic (content_type, object_id) pair
Notif(recipient, actor, verb, kind, id) ==
  [recipient |-> recipient, actor |-> actor, verb |-> verb,
   content_type |-> kind, object_id |-> id, is_read |-> FALSE]

create_notification_upsert(ns, recipient, actor, verb, kind, id) ==
  IF \E i \in DOMAIN ns : ns[i].recipient = recipient
    THEN LET j == CHOOSE i \in DOMAIN ns : ns[i].recipient = recipient
         IN [ns EXCEPT ![j] = Notif(recipient, actor, verb, kind, id)]
    ELSE Append(ns, Notif(recipient, actor, verb, kind, id))

create_notification(ns, recipient, actor, verb, kind, id) ==
  Append(ns, Notif(recipient, actor, verb, kind, id))

\* the followers M2M field: user_to_follow.followers holds follower, i.e.
\* follower.following holds user_to_follow
FollowRow(follower, followed) == [from |-> follower, to |-> followed]

IsFollowing(fs, follower, followed) ==
  BagIn(FollowRow(follower, followed), fs)

\* related manager add(): inserts only the rows that are not there yet
FollowingAddAlways(fs, follower, followed) ==
  fs (+) SetToBag({FollowRow(follower, followed)})

FollowingAddSymmetrical(fs, follower, followed) ==
  LET new == {r \in {FollowRow(follower, followed),
                     FollowRow(followed, follower)} : ~BagIn(r, fs)}
  IN fs (+) SetToBag(new)

FollowingAdd(fs, follower, followed) ==
  IF IsFollowing(fs, follower, followed)
    THEN fs
    ELSE fs (+) SetToBag({FollowRow(follower, followed)})

\* related manager remove(): deletes the matching rows, silent when none
FollowingRemoveBothWays(fs, follower, followed) ==
  [r \in (DOMAIN fs) \ {FollowRow(follower, followed),
                         FollowRow(followed, follower)} |-> fs[r]]

FollowingRemove(fs, follower, followed) ==
  [r \in (DOMAIN fs) \ {FollowRow(follower, followed)} |-> fs[r]]

\* ------------------------------------------------------------------ Init
Init ==
  /\ posts = <<>>
  /\ nextPostId = 1
  /\ likes = EmptyBag
  /\ follows = EmptyBag
  /\ comments = <<>>
  /\ nextCommentId = 1
  /\ notifications = <<>>
  /\ resp = NoResponse
  /\ reqs = <<>>
  /\ users = Users
  /\ blogPosts = <<>>
  /\ nextBlogPostId = 1

\* ----------------------------------------------------------- serializers
\* PostSerializer and CommentSerializer declare 'author' as a ReadOnlyField
\* and list it in read_only_fields: an 'author' sent in the body is left out
\* of validated_data
ValidatedAuthorWritable(bodyAuthor) == bodyAuthor

ValidatedAuthor(bodyAuthor) == Missing

\* serializer.save(**kwargs): the keyword arguments of the view are laid
\* over validated_data, so a keyword wins over the value of the body
SaveMergeBodyWins(validated, kwarg) ==
  IF validated # Missing THEN validated ELSE kwarg

SaveMerge(validated, kwarg) ==
  IF kwarg # Missing THEN kwarg ELSE validated

\* ModelSerializer.update: every attribute in validated_data is set on the
\* instance, the others keep their value
UpdateAttr(current, validated) ==
  IF validated # Missing THEN validated ELSE current

\* --------------------------------------------------------- PostViewSet
\* perform_create: serializer.save(author=request.user)
CreatePost(u, c, bodyAuthor) ==
  /\ nextPostId <= MaxPosts
  /\ posts' = [p \in (DOMAIN posts) \cup {nextPostId} |->
                 IF p = nextPostId
                   THEN [author |-> SaveMerge(ValidatedAuthor(bodyAuthor), u),
                         content |-> c]
                   ELSE posts[p]]
  /\ nextPostId' = nextPostId + 1
  /\ resp' = Response("create_post", u, nextPostId, HTTP_201_CREATED, "")
  /\ UNCHANGED <<likes, follows, comments, nextCommentId, notifications, reqs, users, blogdb>>

\* IsAuthenticatedOrReadOnly is the only permission class: get_object()
\* finds the post and lets every authenticated user through
HasObjectPermission(ps, p, u) == TRUE

\* UpdateModelMixin.update: author is read-only in PostSerializer, title
\* and content are taken from the body
UpdatePost(u, p, c, bodyAuthor) ==
  /\ IF ~PostExists(posts, p)
       THEN /\ resp' = Response("update_post", u, p, HTTP_404_NOT_FOUND, "")
            /\ UNCHANGED posts
       ELSE IF ~HasObjectPermission(posts, p, u)
         THEN /\ resp' = Response("update_post", u, p, HTTP_403_FORBIDDEN, "")
              /\ UNCHANGED posts
         ELSE /\ posts' =
                   [posts EXCEPT
                      ![p] = [author |-> UpdateAttr(posts[p].author,
                                           ValidatedAuthor(bodyAuthor)),
                              content |-> c]]
              /\ resp' = Response("update_post", u, p, HTTP_200_OK, "")
  /\ UNCHANGED <<nextPostId, likes, follows, comments, nextCommentId,
                 notifications, reqs, users, blogdb>>

\* DestroyModelMixin.destroy: instance.delete() cascades to the post's
\* likes and comments
DeletePost(u, p) ==
  /\ IF ~PostExists(posts, p)
       THEN /\ resp' = Response("delete_post", u, p, HTTP_404_NOT_FOUND, "")
            /\ UNCHANGED <<posts, likes, comments>>
       ELSE IF ~HasObjectPermission(posts, p, u)
         THEN /\ resp' = Response("delete_post", u, p, HTTP_403_FORBIDDEN, "")
              /\ UNCHANGED <<posts, likes, comments>>
         ELSE /\ posts' = [q \in (DOMAIN posts) \ {p} |-> posts[q]]
              /\ likes' = CascadeLikes(likes, p)
              /\ comments' = CascadeComments(comments, p)
              /\ resp' = Response("delete_post", u, p, HTTP_204_NO_CONTENT, "")
  /\ UNCHANGED <<nextPostId, follows, nextCommentId, notifications, reqs, users, blogdb>>

\* like, step 2: if post.author == user
IsOwnPostNever(author, u) == FALSE

IsOwnPost(author, u) == author = u

\* like, step 3: Like.objects.create(post=post, user=user)
LikeCreated(ls, u, p) == ls (+) SetToBag({LikeRow(u, p)})

\* like, step 4
LikeNotifiedSwapped(ns, author, u, p) ==
  create_notification(ns, u, author, "liked your post", "post", p)

LikeNotified(ns, author, u, p) ==
  create_notification(ns, author, u, "liked your post", "post", p)

LikeSucceeds(u, p) ==
  /\ PostExists(posts, p)
  /\ ~IsOwnPost(posts[p].author, u)
  /\ ~UniqueTogetherViolated(likes, u, p)

like(u, p) ==
  /\ LikeSucceeds(u, p) => Len(notifications) < MaxNotifs
  /\ IF ~PostExists(posts, p)
       THEN /\ resp' = Response("like", u, p, HTTP_404_NOT_FOUND, "")
            /\ UNCHANGED <<likes, notifications>>
       ELSE IF IsOwnPost(posts[p].author, u)
         THEN /\ resp' = Response("like", u, p, HTTP_400_BAD_REQUEST,
                                  "You cannot like your own post.")
              /\ UNCHANGED <<likes, notifications>>
         ELSE IF UniqueTogetherViolated(likes, u, p)
           THEN /\ resp' = Response("like", u, p, HTTP_400_BAD_REQUEST,
                                    "You have already liked this post.")
                /\ UNCHANGED <<likes, notifications>>
           ELSE /\ likes' = LikeCreated(likes, u, p)
                /\ notifications' =
                     LikeNotified(notifications, posts[p].author, u, p)
                /\ resp' = Response("like", u, p, HTTP_201_CREATED,
                                    "Post like successfully.")
  /\ UNCHANGED <<posts, nextPostId, follows, comments, nextCommentId, reqs, users, blogdb>>

\* unlike: the branch that deleted a row falls off the end of the method,
\* the view returns None and the framework answers with a server error;
\* the delete has been committed by then
unlike(u, p) ==
  /\ IF ~PostExists(posts, p)
       THEN /\ resp' = Response("unlike", u, p, HTTP_404_NOT_FOUND, "")
            /\ UNCHANGED likes
       ELSE IF LikeDeletedCount(likes, u, p) = 0
         THEN /\ resp' = Response("unlike", u, p, HTTP_400_BAD_REQUEST,
                                  "You have not liked this post yet.")
              /\ UNCHANGED likes
         ELSE /\ likes' = LikeDelete(likes, u, p)
              /\ resp' = Response("unlike", u, p, HTTP_500_SERVER_ERROR,
                                  "view returned None")
  /\ UNCHANGED <<posts, nextPostId, follows, comments, nextCommentId,
                 notifications, reqs, users, blogdb>>

\* ------------------------------------------------------ CommentViewSet
\* CommentSerializer: 'post' is a writable, required primary-key field, so
\* is_valid() rejects a body whose 'post' is left out or names no post
CommentBodyValid(ps, bodyPost) == PostExists(ps, bodyPost)

\* serializer.save(): creates the row when the serializer has no instance
\* yet, updates the row of its instance otherwise
SerializerSave(cs, instance, id, p, u) ==
  IF instance = 0
    THEN Append(cs, [id |-> id, post |-> p, author |-> u])
    ELSE [i \in DOMAIN cs |->
            IF cs[i].id = instance THEN [id |-> instance, post |-> p,
                                         author |-> u]
                                   ELSE cs[i]]

CommentNotifiesAlways(author, u) == TRUE

CommentNotifies(author, u) == author # u

\* perform_create: serializer.save(author=self.request.user, post=post),
\* then comment = serializer.save(author=self.request.user, post=post)
CommentSavedTwice(cs, id, u, urlPost, bodyPost, bodyAuthor) ==
  LET post == SaveMerge(bodyPost, urlPost)
      author == SaveMerge(ValidatedAuthor(bodyAuthor), u)
      first == SerializerSave(cs, 0, id, post, author)
  IN SerializerSave(first, id, id, post, author)

\* CreateModelMixin.create: is_valid(), perform_create(), 201
CreateComment(u, urlPost, bodyPost, bodyAuthor) ==
  LET ok == CommentBodyValid(posts, bodyPost) /\ PostExists(posts, urlPost)
      second == CommentSavedTwice(comments, nextCommentId, u, urlPost,
                                  bodyPost, bodyAuthor)
  IN
  /\ ok => /\ nextCommentId <= MaxComments
           /\ CommentNotifies(posts[urlPost].author, u) =>
                Len(notifications) < MaxNotifs
  /\ IF ~CommentBodyValid(posts, bodyPost)
       THEN /\ resp' = Response("create_comment", u, urlPost,
                                HTTP_400_BAD_REQUEST, "invalid body")
            /\ UNCHANGED <<comments, nextCommentId, notifications>>
       ELSE IF ~PostExists(posts, urlPost)
         THEN /\ resp' = Response("create_comment", u, urlPost,
                                  HTTP_400_BAD_REQUEST, "Post not found!")
              /\ UNCHANGED <<comments, nextCommentId, notifications>>
         ELSE /\ comments' = second
              /\ nextCommentId' = nextCommentId + 1
              /\ notifications' =
                   IF CommentNotifies(posts[urlPost].author, u)
                     THEN create_notification(notifications,
                            posts[urlPost].author, u, "commented on your post",
                            "comment", nextCommentId)
                     ELSE notifications
              /\ resp' = Response("create_comment", u, urlPost,
                                  HTTP_201_CREATED, "")
  /\ UNCHANGED <<posts, nextPostId, likes, follows, reqs, users, blogdb>>

\* ---------------------------------------------------- CustomUserViewSet
IsSelfNever(follower, target) == FALSE

IsSelf(follower, target) == follower = target

\* follow: create_notification(recipient=user_to_follow, actor=follower,
\* verb='started following you', target=follower)
FollowNotifiedTargetFollowed(ns, follower, followed) ==
  create_notification(ns, followed, follower, "started following you",
                      "user", followed)

FollowNotifiedOnce(ns, follower, followed) ==
  IF \E i \in DOMAIN ns : /\ ns[i].recipient = followed
                           /\ ns[i].actor = follower
                           /\ ns[i].verb = "started following you"
    THEN ns
    ELSE create_notification(ns, followed, follower, "started following you",
                             "user", follower)

FollowNotified(ns, follower, followed) ==
  create_notification(ns, followed, follower, "started following you",
                      "user", follower)

follow(u, target) ==
  /\ (target \in users /\ ~IsSelf(u, target)) => Len(notifications) < MaxNotifs
  /\ IF target \notin users
       THEN /\ resp' = Response("follow", u, target, HTTP_404_NOT_FOUND,
                                "User not found!")
            /\ UNCHANGED <<follows, notifications>>
       ELSE IF IsSelf(u, target)
         THEN /\ resp' = Response("follow", u, target, HTTP_400_BAD_REQUEST,
                                  "You cannot follow yourself!")
              /\ UNCHANGED <<follows, notifications>>
         ELSE /\ follows' = FollowingAdd(follows, u, target)
              /\ notifications' = FollowNotified(notifications, u, target)
              /\ resp' = Response("follow", u, target, HTTP_200_OK, "")
  /\ UNCHANGED <<posts, nextPostId, likes, comments, nextCommentId, reqs, users, blogdb>>

unfollow(u, target) ==
  /\ IF target \notin users
       THEN /\ resp' = Response("unfollow", u, target, HTTP_404_NOT_FOUND,
                                "User nto found!")
            /\ UNCHANGED follows
       ELSE /\ follows' = FollowingRemove(follows, u, target)
            /\ resp' = Response("unfollow", u, target, HTTP_200_OK, "")
  /\ UNCHANGED <<posts, nextPostId, likes, comments, nextCommentId,
                 notifications, reqs, users, blogdb>>

\* -------------------------------------------------- CustomUserSerializer
\* Fields declared in the class body and the names listed in Meta.fields.
\* ModelSerializer builds its fields only when every declared field is
\* listed; otherwise building them fails an assertion and the request ends
\* in a server error before any validation or save.
DeclaredFields == {"password", "token", "followers_count"}

MetaFields == {"id", "username", "email", "bio", "profile_picture",
               "followers", "password"}

ReadOnlyFields == {"id"}

FieldsBuildAlways == TRUE

FieldsBuild == DeclaredFields \subseteq MetaFields

\* ModelSerializer.update on the many-to-many 'followers': followers.set()
FollowersSet(fs, u, newFollowers) ==
  LET keep == {r \in DOMAIN fs : r.to # u \/ r.from \in newFollowers}
      add == {FollowRow(f, u) : f \in newFollowers}
  IN [r \in keep \cup add |-> IF r \in keep THEN fs[r] ELSE 1]

\* UserProfileView (PUT/PATCH): get_object() is request.user
ProfileUpdate(u, newFollowers) ==
  /\ IF ~FieldsBuild
       THEN /\ resp' = Response("profile_update", u, newFollowers,
                                HTTP_500_SERVER_ERROR, "field not in fields")
            /\ UNCHANGED follows
       ELSE /\ follows' = IF "followers" \in MetaFields \ ReadOnlyFields
                            THEN FollowersSet(follows, u, newFollowers)
                            ELSE follows
            /\ resp' = Response("profile_update", u, newFollowers,
                                HTTP_200_OK, "")
  /\ UNCHANGED <<posts, nextPostId, likes, comments, nextCommentId,
                 notifications, reqs, users, blogdb>>

\* RegisterUserView.create: is_valid() needs the serializer's fields; were
\* they built, the serializer's create (the second definition of that name)
\* would fail on self.get_serializer. No user row is written either way.
Register(name) ==
  /\ resp' = Response("register", name, 0, HTTP_500_SERVER_ERROR,
                      IF FieldsBuild THEN "no get_serializer"
                                     ELSE "field not in fields")
  /\ UNCHANGED <<posts, nextPostId, likes, follows, comments, nextCommentId,
                 notifications, reqs, users, blogdb>>

\* ------------------------------------------------------------ read views
\* a set of ids as a sequence, largest id first; ids are issued in creation
\* order, so this is order_by('-created_at') / order_by('-timestamp')
RECURSIVE NewestFirst(_)
NewestFirst(S) ==
  IF S = {} THEN <<>>
  ELSE LET m == CHOOSE x \in S : \A y \in S : y <= x
       IN <<m>> \o NewestFirst(S \ {m})

\* StandardResultsSetPagination: the first page of a queryset
page_size == 10

FirstPage(seq) ==
  IF Len(seq) <= page_size THEN seq ELSE SubSeq(seq, 1, page_size)

\* request.user.following.all()
FollowersOfUser(fs, u) == {x \in Users : IsFollowing(fs, x, u)}

FollowingUsers(fs, u) == {x \in Users : IsFollowing(fs, u, x)}

\* Post.objects.filter(author__in=following_users).order_by('-created_at')
FeedPosts(ps, fs, u) ==
  NewestFirst({p \in DOMAIN ps : ps[p].author \in FollowingUsers(fs, u)})

feed(u) ==
  /\ resp' = Response("feed", u, FirstPage(FeedPosts(posts, follows, u)),
                      HTTP_200_OK, "")
  /\ UNCHANGED <<db, reqs, blogdb>>

\* -------------------------------------------------- NotificationViewSet
\* get_queryset: filter(recipient=request.user).order_by('-timestamp');
\* a notification's id is its position in the table
QuerysetUnfiltered(ns, u) == NewestFirst(DOMAIN ns)

NotificationQueryset(ns, u) ==
  NewestFirst({i \in DOMAIN ns : ns[i].recipient = u})

list_notifications(u) ==
  /\ resp' = Response("list_notifications", u,
                      NotificationQueryset(notifications, u), HTTP_200_OK, "")
  /\ UNCHANGED <<db, reqs, blogdb>>

\* mark_all_as_read: filter(recipient=request.user, is_read=False)
UnreadOfAnyone(ns, u) == {i \in DOMAIN ns : ~ns[i].is_read}

AllNotificationsOf(ns, u) == {i \in DOMAIN ns : ns[i].recipient = u}

UnreadNotifications(ns, u) ==
  {i \in DOMAIN ns : ns[i].recipient = u /\ ~ns[i].is_read}

\* f'Marked {count} notifications as read.'
MarkedDetail(count) ==
  "Marked " \o ToString(count) \o " notifications as read."

\* count = unread_notifications.update(is_read=True): the rows of the
\* queryset are updated and their number is returned
UpdateIsRead(ns, u) ==
  [i \in DOMAIN ns |->
     IF i \in UnreadNotifications(ns, u)
       THEN [ns[i] EXCEPT !.is_read = TRUE]
       ELSE ns[i]]

UpdateCount(ns, u) == Cardinality(UnreadNotifications(ns, u))

mark_all_as_read(u) ==
  /\ notifications' = UpdateIsRead(notifications, u)
  /\ resp' = Response("mark_all_as_read", u, 0, HTTP_200_OK,
                      MarkedDetail(UpdateCount(notifications, u)))
  /\ UNCHANGED <<posts, nextPostId, likes, follows, comments,
                 nextCommentId, reqs, users, blogdb>>

\* ------------------------------------------------------------------ Next
Next ==
  \/ \E u \in Users, c \in Contents, a \in BodyAuthors : CreatePost(u, c, a)
  \/ \E u \in Users, p \in UrlPostIds, c \in Contents, a \in BodyAuthors :
       UpdatePost(u, p, c, a)
  \/ \E u \in Users, p \in UrlPostIds : DeletePost(u, p)
  \/ \E u \in Users, p \in UrlPostIds : like(u, p)
  \/ \E u \in Users, p \in UrlPostIds : unlike(u, p)
  \/ \E u \in Users, p \in UrlPostIds, b \in BodyPostIds, a \in BodyAuthors :
       CreateComment(u, p, b, a)
  \/ \E u \in Users, t \in UrlUserIds : follow(u, t)
  \/ \E u \in Users, t \in UrlUserIds : unfollow(u, t)
  \/ \E u \in Users, f \in SUBSET Users : ProfileUpdate(u, f)
  \/ \E n \in Users : Register(n)
  \/ \E u \in Users : feed(u)
  \/ \E u \in Users : list_notifications(u)
  \/ \E u \in Users : mark_all_as_read(u)

Spec == Init /\ [][Next]_vars

\* ------------------------------------- a failing notification INSERT
\* create_notification is called outside every try block and after the
\* handler's own write: when Notification.objects.create raises (a database
\* error), the exception leaves the view, the framework answers with a
\* server error, and the write made before it stays committed.
LikeNotifyRaises(u, p) ==
  /\ LikeSucceeds(u, p)
  /\ likes' = LikeCreated(likes, u, p)
  /\ resp' = Response("like", u, p, HTTP_500_SERVER_ERROR,
                      "create_notification raised")
  /\ UNCHANGED <<posts, nextPostId, follows, comments, nextCommentId,
                 notifications, reqs, users, blogdb>>

FollowNotifyRaises(u, target) ==
  /\ target \in users
  /\ ~IsSelf(u, target)
  /\ follows' = FollowingAdd(follows, u, target)
  /\ resp' = Response("follow", u, target, HTTP_500_SERVER_ERROR,
                      "create_notification raised")
  /\ UNCHANGED <<posts, nextPostId, likes, comments, nextCommentId,
                 notifications, reqs, users, blogdb>>

CommentNotifyRaises(u, urlPost, bodyPost, bodyAuthor) ==
  /\ CommentBodyValid(posts, bodyPost)
  /\ PostExists(posts, urlPost)
  /\ CommentNotifies(posts[urlPost].author, u)
  /\ nextCommentId <= MaxComments
  /\ comments' = CommentSavedTwice(comments, nextCommentId, u, urlPost,
                                   bodyPost, bodyAuthor)
  /\ nextCommentId' = nextCommentId + 1
  /\ resp' = Response("create_comment", u, urlPost, HTTP_500_SERVER_ERROR,
                      "create_notification raised")
  /\ UNCHANGED <<posts, nextPostId, likes, follows, notifications, reqs,
                 users, blogdb>>

NextFault ==
  \/ \E u \in Users, c \in Contents, a \in BodyAuthors : CreatePost(u, c, a)
  \/ \E u \in Users, p \in UrlPostIds : like(u, p)
  \/ \E u \in Users, p \in UrlPostIds, b \in BodyPostIds, a \in BodyAuthors :
       CreateComment(u, p, b, a)
  \/ \E u \in Users, t \in UrlUserIds : follow(u, t)
  \/ \E u \in Users, p \in UrlPostIds : LikeNotifyRaises(u, p)
  \/ \E u \in Users, p \in UrlPostIds, b \in BodyPostIds, a \in BodyAuthors :
       CommentNotifyRaises(u, p, b, a)
  \/ \E u \in Users, t \in UrlUserIds : FollowNotifyRaises(u, t)

SpecFault == Init /\ [][NextFault]_vars

\* ------------------------------------------- requests without credential
\* request.user of a request that carries no credential (AnonymousUser)
Anonymous == 0

SAFE_METHODS == {"GET", "HEAD", "OPTIONS"}

\* the operations of the routers and the HTTP method of each
AnonOps == {"list_posts", "retrieve_post", "create_post", "update_post",
            "delete_post", "like", "unlike", "create_comment", "follow",
            "unfollow", "mark_all_as_read"}

MethodOf(op) ==
  CASE op \in {"list_posts", "retrieve_post"} -> "GET"
    [] op = "update_post" -> "PUT"
    [] op = "delete_post" -> "DELETE"
    [] OTHER -> "POST"

\* permission_classes of the view set, or of the @action when it names its
\* own
PermissionOf(op) ==
  IF op \in {"follow", "unfollow", "mark_all_as_read"}
    THEN "IsAuthenticated"
    ELSE "IsAuthenticatedOrReadOnly"

\* the ids a URL of the operation may name
AnonTargets(op) ==
  CASE op \in {"follow", "unfollow"} -> UrlUserIds
    [] op \in {"list_posts", "create_post", "mark_all_as_read"} -> {AbsentId}
    [] OTHER -> UrlPostIds

has_permission_allow_any(permission, method, u) == TRUE

has_permission(permission, method, u) ==
  IF permission = "IsAuthenticated"
    THEN u # Anonymous
    ELSE method \in SAFE_METHODS \/ u # Anonymous

\* The authentication classes are set in settings/base.py; the API takes a
\* token credential, whose authentication class names the scheme "Token"
\* for the WWW-Authenticate header.
AuthenticateHeader == "Token"

\* APIView.permission_denied raises NotAuthenticated for a request without
\* credential; it is answered 401 when the authentication class supplies a
\* WWW-Authenticate header and 403 when it supplies none
NotAuthenticatedStatus ==
  IF AuthenticateHeader # "" THEN HTTP_401_UNAUTHORIZED
                             ELSE HTTP_403_FORBIDDEN

\* APIView.initial runs check_permissions before the handler is called. A
\* request let through runs its handler with request.user = AnonymousUser:
\* the read handlers and update/destroy never use request.user, every other
\* handler hands it to a foreign key or a related manager, which raises.
AnonymousRequest(op, t, c, bodyAuthor) ==
  IF ~has_permission(PermissionOf(op), MethodOf(op), Anonymous)
    THEN /\ resp' = Response(op, Anonymous, t, NotAuthenticatedStatus,
                             "Authentication credentials were not provided.")
         /\ UNCHANGED <<db, reqs, blogdb>>
    ELSE CASE op = "list_posts" ->
                /\ resp' = Response(op, Anonymous,
                                    FirstPage(NewestFirst(DOMAIN posts)),
                                    HTTP_200_OK, "")
                /\ UNCHANGED <<db, reqs, blogdb>>
           [] op = "retrieve_post" ->
                /\ resp' = Response(op, Anonymous, t,
                                    IF PostExists(posts, t)
                                      THEN HTTP_200_OK
                                      ELSE HTTP_404_NOT_FOUND, "")
                /\ UNCHANGED <<db, reqs, blogdb>>
           [] op = "update_post" -> UpdatePost(Anonymous, t, c, bodyAuthor)
           [] op = "delete_post" -> DeletePost(Anonymous, t)
           [] OTHER ->
                /\ resp' = Response(op, Anonymous, t, HTTP_500_SERVER_ERROR,
                                    "AnonymousUser")
                /\ UNCHANGED <<db, reqs, blogdb>>

NextAuth ==
  \/ \E u \in Users, c \in Contents, a \in BodyAuthors : CreatePost(u, c, a)
  \/ \E u \in Users, p \in UrlPostIds : like(u, p)
  \/ \E u \in Users, t \in UrlUserIds : follow(u, t)
  \/ \E op \in AnonOps, c \in Contents, a \in BodyAuthors :
       \E t \in AnonTargets(op) : AnonymousRequest(op, t, c, a)

SpecAuth == Init /\ [][NextAuth]_vars

\* ------------------------------------------------------ blog application
\* django_blog/blog/views.py: the class-based views of a blog post. The
\* users are those of django.contrib.auth, named by the same ids; a request
\* of a client that is not logged in has user Anonymous.
BlogClients == Users \cup {Anonymous}

BlogMethods == {"GET", "POST"}

\* LoginRequiredMixin.dispatch: request.user.is_authenticated
is_authenticated(u) == u # Anonymous

\* test_func: post.author == self.request.user
test_func_always(ps, p, u) == TRUE

test_func(ps, p, u) == ps[p].author = u

\* PostCreateView (POST of a valid form): form.instance.author =
\* self.request.user, save, redirect to success_url
PostCreateView(u, c) ==
  /\ nextBlogPostId <= MaxPosts
  /\ IF ~is_authenticated(u)
       THEN /\ resp' = Response("blog_create", u, AbsentId, HTTP_302_FOUND,
                                "login")
            /\ UNCHANGED blogdb
       ELSE /\ blogPosts' =
                 [p \in (DOMAIN blogPosts) \cup {nextBlogPostId} |->
                    IF p = nextBlogPostId THEN [author |-> u, content |-> c]
                                          ELSE blogPosts[p]]
            /\ nextBlogPostId' = nextBlogPostId + 1
            /\ resp' = Response("blog_create", u, nextBlogPostId,
                                HTTP_302_FOUND, "/posts/")
  /\ UNCHANGED <<db, reqs>>

\* PostUpdateView: LoginRequiredMixin sends a client that is not logged in
\* to the login page; UserPassesTestMixin calls test_func, whose
\* get_object() answers 404 for an unknown pk, and raises PermissionDenied
\* (403) when test_func is false; then GET renders the form and POST saves
\* it and redirects
PostUpdateView(u, p, method, c) ==
  /\ IF ~is_authenticated(u)
       THEN /\ resp' = Response("blog_update_" \o method, u, p,
                                HTTP_302_FOUND, "login")
            /\ UNCHANGED blogdb
       ELSE IF p \notin DOMAIN blogPosts
         THEN /\ resp' = Response("blog_update_" \o method, u, p,
                                  HTTP_404_NOT_FOUND, "")
              /\ UNCHANGED blogdb
         ELSE IF ~test_func(blogPosts, p, u)
           THEN /\ resp' = Response("blog_update_" \o method, u, p,
                                    HTTP_403_FORBIDDEN, "")
                /\ UNCHANGED blogdb
           ELSE IF method = "GET"
             THEN /\ resp' = Response("blog_update_" \o method, u, p,
                                      HTTP_200_OK, "blog/post_form.html")
                  /\ UNCHANGED blogdb
             ELSE /\ blogPosts' = [blogPosts EXCEPT ![p].content = c]
                  /\ UNCHANGED nextBlogPostId
                  /\ resp' = Response("blog_update_" \o method, u, p,
                                      HTTP_302_FOUND, "/posts/")
  /\ UNCHANGED <<db, reqs>>

\* PostDeleteView: the same two mixins; GET renders the confirmation page
\* and POST deletes the post and redirects
PostDeleteView(u, p, method) ==
  /\ IF ~is_authenticated(u)
       THEN /\ resp' = Response("blog_delete_" \o method, u, p,
                                HTTP_302_FOUND, "login")
            /\ UNCHANGED blogdb
       ELSE IF p \notin DOMAIN blogPosts
         THEN /\ resp' = Response("blog_delete_" \o method, u, p,
                                  HTTP_404_NOT_FOUND, "")
              /\ UNCHANGED blogdb
         ELSE IF ~test_func(blogPosts, p, u)
           THEN /\ resp' = Response("blog_delete_" \o method, u, p,
                                    HTTP_403_FORBIDDEN, "")
                /\ UNCHANGED blogdb
           ELSE IF method = "GET"
             THEN /\ resp' = Response("blog_delete_" \o method, u, p,
                                      HTTP_200_OK,
                                      "blog/post_confirm_delete.html")
                  /\ UNCHANGED blogdb
             ELSE /\ blogPosts' =
                       [q \in (DOMAIN blogPosts) \ {p} |-> blogPosts[q]]
                  /\ UNCHANGED nextBlogPostId
                  /\ resp' = Response("blog_delete_" \o method, u, p,
                                      HTTP_302_FOUND, "/posts/")
  /\ UNCHANGED <<db, reqs>>

NextBlog ==
  \/ \E u \in BlogClients, c \in Contents : PostCreateView(u, c)
  \/ \E u \in BlogClients, p \in UrlPostIds, m \in BlogMethods,
        c \in Contents : PostUpdateView(u, p, m, c)
  \/ \E u \in BlogClients, p \in UrlPostIds, m \in BlogMethods :
       PostDeleteView(u, p, m)

SpecBlog == Init /\ [][NextBlog]_vars

\* ------------------------------------------------ one user more than Spec
\* The follow and unfollow handlers over a user table of NumUsers + 1 users.
WideUsers == 1..(NumUsers + 1)

InitFollow ==
  /\ posts = <<>>
  /\ nextPostId = 1
  /\ likes = EmptyBag
  /\ follows = EmptyBag
  /\ comments = <<>>
  /\ nextCommentId = 1
  /\ notifications = <<>>
  /\ resp = NoResponse
  /\ reqs = <<>>
  /\ users = WideUsers
  /\ blogPosts = <<>>
  /\ nextBlogPostId = 1

NextFollow ==
  \/ \E u \in WideUsers, t \in WideUsers \cup {AbsentId} : follow(u, t)
  \/ \E u \in WideUsers, t \in WideUsers \cup {AbsentId} : unfollow(u, t)

SpecFollow == InitFollow /\ [][NextFollow]_vars

\* ------------------------------------------------ one post more than Spec
\* The like, follow and feed handlers started from a database that already
\* holds MaxPosts + 1 posts, any authors.
WidePostIds == 1..(MaxPosts + 1)

InitWide ==
  /\ posts \in [WidePostIds -> [author : Users, content : {"a"}]]
  /\ nextPostId = MaxPosts + 2
  /\ likes = EmptyBag
  /\ follows = EmptyBag
  /\ comments = <<>>
  /\ nextCommentId = 1
  /\ notifications = <<>>
  /\ resp = NoResponse
  /\ reqs = <<>>
  /\ users = Users
  /\ blogPosts = <<>>
  /\ nextBlogPostId = 1

NextWide ==
  \/ \E u \in Users, p \in WidePostIds : like(u, p)
  \/ \E u \in Users, p \in WidePostIds : unlike(u, p)
  \/ \E u \in Users, p \in WidePostIds : DeletePost(u, p)
  \/ \E u \in Users, t \in Users : follow(u, t)
  \/ \E u \in Users, t \in Users : unfollow(u, t)
  \/ \E u \in Users : feed(u)

SpecWide == InitWide /\ [][NextWide]_vars

\* the comment, like and delete handlers from the same database: a comment
\* body can name another existing post than the URL does
NextThread ==
  \/ \E u \in Users, p \in WidePostIds \cup {AbsentId},
        b \in WidePostIds \cup {AbsentId, Missing}, a \in BodyAuthors :
       CreateComment(u, p, b, a)
  \/ \E u \in Users, p \in WidePostIds : like(u, p)
  \/ \E u \in Users, p \in WidePostIds : DeletePost(u, p)

SpecThread == InitWide /\ [][NextThread]_vars

\* --------------------------------------------- concurrent like requests
\* NumReqs like requests, each running the steps of PostViewSet.like with
\* the other requests' steps in between; every step is one SQL statement.
Reqs == 1..NumReqs

InitRace ==
  /\ posts \in [PostIds -> [author : Users, content : {"a"}]]
  /\ nextPostId = MaxPosts + 1
  /\ likes = EmptyBag
  /\ follows = EmptyBag
  /\ comments = <<>>
  /\ nextCommentId = 1
  /\ notifications = <<>>
  /\ resp = NoResponse
  /\ reqs \in [Reqs -> [pc : {"get_object"}, user : Users, post : PostIds,
                        author : {0}, status : {0}, detail : {""}]]
  /\ users = Users
  /\ blogPosts = <<>>
  /\ nextBlogPostId = 1

Done(r, status, detail) ==
  [reqs EXCEPT ![r].pc = "done", ![r].status = status, ![r].detail = detail]

\* post = self.get_object(); if post.author == user: 400
LikeGetObject(r) ==
  /\ reqs[r].pc = "get_object"
  /\ reqs' =
       IF ~PostExists(posts, reqs[r].post)
         THEN Done(r, HTTP_404_NOT_FOUND, "")
         ELSE IF IsOwnPost(posts[reqs[r].post].author, reqs[r].user)
           THEN Done(r, HTTP_400_BAD_REQUEST, "You cannot like your own post.")
           ELSE [reqs EXCEPT ![r].pc = "create",
                             ![r].author = posts[reqs[r].post].author]
  /\ UNCHANGED <<db, resp, blogdb>>

\* Like.objects.create(...) / except IntegrityError: 400
LikeCreate(r) ==
  /\ reqs[r].pc = "create"
  /\ IF UniqueTogetherViolated(likes, reqs[r].user, reqs[r].post)
       THEN /\ reqs' = Done(r, HTTP_400_BAD_REQUEST,
                            "You have already liked this post.")
            /\ UNCHANGED likes
       ELSE /\ likes' = LikeCreated(likes, reqs[r].user, reqs[r].post)
            /\ reqs' = [reqs EXCEPT ![r].pc = "notify"]
  /\ UNCHANGED <<posts, nextPostId, follows, comments, nextCommentId,
                 notifications, resp, users, blogdb>>

\* create_notification(...); return 201
LikeNotify(r) ==
  /\ reqs[r].pc = "notify"
  /\ notifications' = LikeNotified(notifications, reqs[r].author,
                                   reqs[r].user, reqs[r].post)
  /\ reqs' = Done(r, HTTP_201_CREATED, "Post like successfully.")
  /\ UNCHANGED <<posts, nextPostId, likes, follows, comments, nextCommentId,
                 resp, users, blogdb>>

NextRace ==
  \/ \E r \in Reqs : LikeGetObject(r)
  \/ \E r \in Reqs : LikeCreate(r)
  \/ \E r \in Reqs : LikeNotify(r)

SpecRace == InitRace /\ [][NextRace]_vars

\* ================================================================ claims
IsStep(op, u, t) == resp'.op = op /\ resp'.user = u /\ resp'.target = t

LikeNotifs(ns, author, u, p) ==
  {i \in DOMAIN ns : ns[i] = Notif(author, u, "liked your post", "post", p)
                     \/ ns[i] = [Notif(author, u, "liked your post", "post", p)
                                   EXCEPT !.is_read = TRUE]}

FollowNotifs(ns, follower, followed) ==
  {i \in DOMAIN ns : /\ ns[i].recipient = followed
                     /\ ns[i].actor = follower
                     /\ ns[i].verb = "started following you"}

\* C1: for a post P and a user U who is not its author, a like of P by U
\* while Like(U,P) exists is answered 400 "already liked" and changes no
\* Like; Like(U,P) stays until U unlikes P (or P is deleted); an unlike that
\* finds the Like removes it; and a like while no Like(U,P) exists is
\* answered 201 and stores Like(U,P).
C1_LikeUnlikeLike ==
  [][\A u \in Users, p \in PostIds :
       (PostExists(posts, p) /\ posts[p].author # u) =>
         /\ (IsStep("like", u, p) /\ HasLike(likes, u, p)) =>
              /\ resp'.status = HTTP_400_BAD_REQUEST
              /\ resp'.detail = "You have already liked this post."
              /\ likes' = likes
         /\ (IsStep("like", u, p) /\ ~HasLike(likes, u, p)) =>
              /\ resp'.status = HTTP_201_CREATED
              /\ HasLike(likes', u, p)
         /\ (IsStep("unlike", u, p) /\ HasLike(likes, u, p)) =>
              ~HasLike(likes', u, p)
         /\ (HasLike(likes, u, p) /\ HasLike(likes', u, p)) \/
            ~HasLike(likes, u, p) \/
            IsStep("unlike", u, p) \/
            (resp'.op = "delete_post" /\ resp'.target = p)
    ]_vars

\* a duplicate like was refused after a like, unlike, like cycle
C1_Witness ==
  /\ resp.op = "like"
  /\ resp.status = HTTP_400_BAD_REQUEST
  /\ resp.detail = "You have already liked this post."
  /\ PostExists(posts, resp.target)
  /\ Cardinality(LikeNotifs(notifications, posts[resp.target].author,
                            resp.user, resp.target)) = 2

\* C2: the Like table never holds two rows for the same (user, post) pair.
C2_AtMostOneLike ==
  \A u \in Users, p \in PostIds : CopiesIn(LikeRow(u, p), likes) <= 1

\* a second like of the same pair was attempted and the table holds one row
C2_Witness ==
  /\ resp.op = "like"
  /\ resp.status = HTTP_400_BAD_REQUEST
  /\ resp.detail = "You have already liked this post."
  /\ CopiesIn(LikeRow(resp.user, resp.target), likes) = 1

\* C3: when all concurrent like requests of one (user, post) pair, the user
\* not being the author, have finished, exactly one of them was answered
\* 201 and every other one 400 "already liked"; the table holds one
\* Like(U,P) and one "liked your post" notification of U for P.
SamePair(u, p) == {r \in Reqs : reqs[r].user = u /\ reqs[r].post = p}

C3_ConcurrentLikes ==
  \A u \in Users, p \in PostIds :
    (/\ posts[p].author # u
     /\ SamePair(u, p) # {}
     /\ \A r \in SamePair(u, p) : reqs[r].pc = "done") =>
       /\ Cardinality({r \in SamePair(u, p) :
                         reqs[r].status = HTTP_201_CREATED}) = 1
       /\ \A r \in SamePair(u, p) :
            \/ reqs[r].status = HTTP_201_CREATED
            \/ /\ reqs[r].status = HTTP_400_BAD_REQUEST
               /\ reqs[r].detail = "You have already liked this post."
       /\ CopiesIn(LikeRow(u, p), likes) = 1
       /\ Cardinality(LikeNotifs(notifications, posts[p].author, u, p)) = 1

\* every request of one pair has finished, one answered 201 and another
\* one 400
C3_Witness ==
  \E r1, r2 \in Reqs :
    /\ r1 # r2
    /\ reqs[r1].user = reqs[r2].user
    /\ reqs[r1].post = reqs[r2].post
    /\ reqs[r1].pc = "done" /\ reqs[r1].status = HTTP_201_CREATED
    /\ reqs[r2].pc = "done" /\ reqs[r2].status = HTTP_400_BAD_REQUEST
    /\ \A r \in SamePair(reqs[r1].user, reqs[r1].post) : reqs[r].pc = "done"

\* C4: a like of a post by its own author is answered 400 "cannot like
\* your own post", and no Like row has the author of its post as user.
C4_NoSelfLike ==
  /\ \A r \in BagToSet(likes) :
       PostExists(posts, r.post) /\ posts[r.post].author # r.user
  /\ (/\ resp.op = "like"
      /\ PostExists(posts, resp.target)
      /\ posts[resp.target].author = resp.user) =>
       /\ resp.status = HTTP_400_BAD_REQUEST
       /\ resp.detail = "You cannot like your own post."

C4_Witness ==
  /\ resp.op = "like"
  /\ PostExists(posts, resp.target)
  /\ posts[resp.target].author = resp.user
  /\ resp.status = HTTP_400_BAD_REQUEST

\* C5 as stated: after a like answered 201, exactly one notification with
\* recipient = the post's author, actor = the liker and verb "liked your
\* post" exists.
C5_ExactlyOneNotification ==
  (resp.op = "like" /\ resp.status = HTTP_201_CREATED) =>
    Cardinality({i \in DOMAIN notifications :
                   /\ notifications[i].recipient = posts[resp.target].author
                   /\ notifications[i].actor = resp.user
                   /\ notifications[i].verb = "liked your post"}) = 1

\* C5 amended: a like answered 201 appends exactly one notification
\* (recipient = the post's author, actor = the liker, verb "liked your
\* post", target = the post, unread) and leaves every earlier notification
\* as it was.
C5_OneNewNotification ==
  [][\A u \in Users, p \in PostIds :
       (IsStep("like", u, p) /\ resp'.status = HTTP_201_CREATED) =>
         notifications' =
           Append(notifications,
                  Notif(posts[p].author, u, "liked your post", "post", p))
    ]_vars

\* a like answered 201 after an earlier like and unlike of the same pair
C5_Witness ==
  /\ resp.op = "like"
  /\ resp.status = HTTP_201_CREATED
  /\ Cardinality(LikeNotifs(notifications, posts[resp.target].author,
                            resp.user, resp.target)) = 2

\* C6: an update or a delete of an existing post requested by a user who
\* is not the post's author is refused with 403 and leaves the Post table
\* as it was.
C6_OwnerOnly ==
  [][\A u \in Users, p \in PostIds :
       (/\ resp'.op \in {"update_post", "delete_post"}
        /\ resp'.user = u /\ resp'.target = p
        /\ PostExists(posts, p)
        /\ posts[p].author # u) =>
         /\ resp'.status = HTTP_403_FORBIDDEN
         /\ posts' = posts
    ]_vars

\* C7: a follow of B by A (A # B) is answered 200 whether or not the edge
\* A->B is there already, and afterwards the through table holds exactly
\* one A->B row; a follow of an existing edge leaves the table as it was.
C7_FollowIdempotent ==
  [][\A a \in Users, b \in Users :
       (a # b /\ IsStep("follow", a, b)) =>
         /\ resp'.status = HTTP_200_OK
         /\ CopiesIn(FollowRow(a, b), follows') = 1
         /\ IsFollowing(follows, a, b) => follows' = follows
    ]_vars

\* a follow repeated on an existing edge: two calls were answered 200 and
\* one row is stored
C7_Witness ==
  /\ resp.op = "follow"
  /\ resp.status = HTTP_200_OK
  /\ Cardinality(FollowNotifs(notifications, resp.user, resp.target)) = 2
  /\ CopiesIn(FollowRow(resp.user, resp.target), follows) = 1

\* C8: a follow of oneself is answered 400 "cannot follow yourself" and
\* changes no table.
C8_SelfFollowRejected ==
  [][\A a \in Users :
       IsStep("follow", a, a) =>
         /\ resp'.status = HTTP_400_BAD_REQUEST
         /\ resp'.detail = "You cannot follow yourself!"
         /\ UNCHANGED db
    ]_vars

\* a self-follow was refused while other edges and notifications exist
C8_Witness ==
  /\ resp.op = "follow"
  /\ resp.user = resp.target
  /\ resp.status = HTTP_400_BAD_REQUEST
  /\ follows # EmptyBag
  /\ notifications # <<>>

C10_CommentOnAbsentPost ==
  [][\A u \in Users, p \in UrlPostIds :
       (IsStep("create_comment", u, p) /\ ~PostExists(posts, p)) =>
         /\ resp'.status = HTTP_404_NOT_FOUND
         /\ comments' = comments
         /\ notifications' = notifications
    ]_vars

\* C11: a comment request answered 201 stores one comment on the post of
\* the URL by the requester, and appends a notification (recipient = the
\* post's author, actor = the commenter, verb "commented on your post",
\* target = the new comment) when the commenter is not the post's author,
\* and no notification when it is.
C11_CommentNotification ==
  [][\A u \in Users, p \in PostIds :
       (IsStep("create_comment", u, p) /\ resp'.status = HTTP_201_CREATED) =>
         /\ comments' = Append(comments, [id |-> nextCommentId, post |-> p,
                                          author |-> u])
         /\ posts[p].author # u =>
              notifications' =
                Append(notifications,
                       Notif(posts[p].author, u, "commented on your post",
                             "comment", nextCommentId))
         /\ posts[p].author = u => notifications' = notifications
    ]_vars

\* a comment by another user has been stored and notified
C11_Witness ==
  /\ resp.op = "create_comment"
  /\ resp.status = HTTP_201_CREATED
  /\ PostExists(posts, resp.target)
  /\ posts[resp.target].author # resp.user
  /\ \E i \in DOMAIN notifications :
       /\ notifications[i].verb = "commented on your post"
       /\ notifications[i].content_type = "comment"
       /\ \E j \in DOMAIN comments :
            comments[j].id = notifications[i].object_id

\* C12: an unlike that finds Like(U,P) removes it and is answered 200.
C12_UnlikeAnswers200 ==
  [][\A u \in Users, p \in PostIds :
       (IsStep("unlike", u, p) /\ HasLike(likes, u, p)) =>
         /\ ~HasLike(likes', u, p)
         /\ resp'.status = HTTP_200_OK
    ]_vars

\* C13: an unlike of an existing post by a user who has no Like on it is
\* answered 400 "have not liked this post yet"; every unlike leaves the
\* notifications and the Likes of all other (user, post) pairs as they were.
C13_UnlikeFrame ==
  [][\A u \in Users, p \in WidePostIds :
       IsStep("unlike", u, p) =>
         /\ (PostExists(posts, p) /\ ~HasLike(likes, u, p)) =>
              /\ resp'.status = HTTP_400_BAD_REQUEST
              /\ resp'.detail = "You have not liked this post yet."
              /\ likes' = likes
         /\ notifications' = notifications
         /\ \A r \in BagToSet(likes) \cup BagToSet(likes') :
              r # LikeRow(u, p) => CopiesIn(r, likes') = CopiesIn(r, likes)
    ]_vars

\* an unlike removed its Like while the Like of another pair stayed
C13_Witness ==
  /\ resp.op = "unlike"
  /\ resp.status = HTTP_500_SERVER_ERROR
  /\ ~HasLike(likes, resp.user, resp.target)
  /\ likes # EmptyBag
  /\ Len(notifications) = 2

\* C14: a follow answered 200 appends one unread notification with
\* recipient = the followed user, actor = the follower, verb "started
\* following you" and target = the follower.
C14_FollowNotification ==
  [][\A a \in Users, b \in Users :
       (IsStep("follow", a, b) /\ resp'.status = HTTP_200_OK) =>
         notifications' =
           Append(notifications,
                  [recipient |-> b, actor |-> a,
                   verb |-> "started following you",
                   content_type |-> "user", object_id |-> a,
                   is_read |-> FALSE])
    ]_vars

C14_Witness ==
  /\ resp.op = "follow"
  /\ resp.status = HTTP_200_OK
  /\ notifications # <<>>
  /\ notifications[Len(notifications)].recipient = resp.target
  /\ notifications[Len(notifications)].object_id = resp.user
  /\ ~notifications[Len(notifications)].is_read

\* C15: an unfollow of B by A is answered 200 and leaves no A->B row; it
\* changes no other row of the follow table and no notification, and when
\* there was no A->B row (A = B included) it changes nothing at all.
C15_UnfollowFrame ==
  [][\A a \in Users, b \in Users :
       IsStep("unfollow", a, b) =>
         /\ resp'.status = HTTP_200_OK
         /\ ~IsFollowing(follows', a, b)
         /\ \A r \in BagToSet(follows) \cup BagToSet(follows') :
              r # FollowRow(a, b) => CopiesIn(r, follows') = CopiesIn(r, follows)
         /\ notifications' = notifications
         /\ ~IsFollowing(follows, a, b) => UNCHANGED db
    ]_vars

\* an unfollow was served while the opposite edge exists
C15_Witness ==
  /\ resp.op = "unfollow"
  /\ resp.status = HTTP_200_OK
  /\ resp.target \in Users
  /\ ~IsFollowing(follows, resp.user, resp.target)
  /\ IsFollowing(follows, resp.target, resp.user)
  /\ Len(notifications) = 2

\* C16: mark-all-read by R sets is_read on every notification of R, leaves
\* the notifications of other recipients and all other fields and tables as
\* they were, and reports the number of R's notifications that were unread.
C16_MarkAllRead ==
  [][\A r \in Users :
       IsStep("mark_all_as_read", r, 0) =>
         /\ resp'.status = HTTP_200_OK
         /\ DOMAIN notifications' = DOMAIN notifications
         /\ \A i \in DOMAIN notifications :
              notifications'[i] =
                IF notifications[i].recipient = r
                  THEN [notifications[i] EXCEPT !.is_read = TRUE]
                  ELSE notifications[i]
         /\ \E n \in 0..Len(notifications) :
              /\ n = Cardinality({i \in DOMAIN notifications :
                                    /\ notifications[i].recipient = r
                                    /\ ~notifications[i].is_read})
              /\ resp'.detail = MarkedDetail(n)
         /\ UNCHANGED <<posts, nextPostId, likes, follows, comments,
                        nextCommentId>>
    ]_vars

\* one notification was marked while an unread one of another recipient
\* stayed unread
C16_Witness ==
  /\ resp.op = "mark_all_as_read"
  /\ resp.detail = "Marked 1 notifications as read."
  /\ \E i \in DOMAIN notifications :
       notifications[i].recipient = resp.user /\ notifications[i].is_read
  /\ \E i \in DOMAIN notifications :
       notifications[i].recipient # resp.user /\ ~notifications[i].is_read

\* C17: in the state a mark-all-read by R leaves, a further mark-all-read
\* by R counts 0 notifications and its update changes no row.
C17_MarkAllReadTwice ==
  resp.op = "mark_all_as_read" =>
    /\ UpdateCount(notifications, resp.user) = 0
    /\ UpdateIsRead(notifications, resp.user) = notifications

\* a mark-all-read answered 0 for a user whose notifications are all read
C17_Witness ==
  /\ resp.op = "mark_all_as_read"
  /\ resp.detail = "Marked 0 notifications as read."
  /\ \E i \in DOMAIN notifications :
       notifications[i].recipient = resp.user /\ notifications[i].is_read

\* C18: the feed answered to U lists exactly the posts whose author U
\* follows at that moment, newest first; no post of U and no post of a user
\* U does not follow is in it.
C18_Feed ==
  resp.op = "feed" =>
    /\ {resp.target[i] : i \in DOMAIN resp.target} =
         {p \in DOMAIN posts :
            CopiesIn(FollowRow(resp.user, posts[p].author), follows) > 0}
    /\ \A i, j \in DOMAIN resp.target : i < j => resp.target[i] > resp.target[j]
    /\ \A i \in DOMAIN resp.target : posts[resp.target[i]].author # resp.user

\* a feed of two posts, while a further edge exists in the other direction
C18_Witness ==
  /\ resp.op = "feed"
  /\ Len(resp.target) = 2
  /\ \E x \in Users : IsFollowing(follows, x, resp.user)

\* C19: the notification list answered to R holds exactly the ids of the
\* notifications whose recipient is R, newest first; a step that only adds
\* notifications for other recipients leaves R's list as it was.
C19_ListFor ==
  [][/\ resp'.op = "list_notifications" =>
          /\ {resp'.target[i] : i \in DOMAIN resp'.target} =
               {i \in DOMAIN notifications' :
                  notifications'[i].recipient = resp'.user}
          /\ \A i, j \in DOMAIN resp'.target :
               i < j => resp'.target[i] > resp'.target[j]
     /\ \A r \in Users :
          (/\ Len(notifications') > Len(notifications)
           /\ \A i \in (DOMAIN notifications') \ (DOMAIN notifications) :
                notifications'[i].recipient # r) =>
            NotificationQueryset(notifications', r) =
              NotificationQueryset(notifications, r)
    ]_vars

\* a list of one notification was answered while a notification of another
\* recipient is stored
C19_Witness ==
  /\ resp.op = "list_notifications"
  /\ Len(resp.target) = 1
  /\ Len(notifications) = 2

\* C20: a follow, like, unlike or comment request answered with an error
\* status leaves every table as it was.
C20_NoPartialMutation ==
  [][(/\ resp'.op \in {"follow", "like", "unlike", "create_comment"}
      /\ resp'.status >= HTTP_400_BAD_REQUEST) => UNCHANGED db
    ]_vars

\* C21: a follow, like or comment request that has written its edge, Like or
\* Comment is answered with success, also when creating the notification
\* fails afterwards.
C21_FanOutFailureTolerated ==
  [][(/\ resp'.op \in {"follow", "like", "create_comment"}
      /\ \/ likes' # likes
         \/ follows' # follows
         \/ comments' # comments) =>
       resp'.status \in {HTTP_200_OK, HTTP_201_CREATED}
    ]_vars

\* C22: a stored notification keeps its place, recipient, actor, verb and
\* target through every step; only is_read changes, and only from false to
\* true.
C22_NotificationImmutable ==
  [][/\ Len(notifications') >= Len(notifications)
     /\ \A i \in DOMAIN notifications :
          /\ notifications'[i].recipient = notifications[i].recipient
          /\ notifications'[i].actor = notifications[i].actor
          /\ notifications'[i].verb = notifications[i].verb
          /\ notifications'[i].content_type = notifications[i].content_type
          /\ notifications'[i].object_id = notifications[i].object_id
          /\ notifications[i].is_read => notifications'[i].is_read
    ]_vars

\* a notification about a post was read, a later one was added for the same
\* recipient, and the post was deleted
C22_Witness ==
  /\ resp.op = "delete_post"
  /\ resp.status = HTTP_204_NO_CONTENT
  /\ Len(notifications) = 2
  /\ notifications[1].content_type = "post"
  /\ notifications[1].object_id = resp.target
  /\ notifications[1].is_read
  /\ notifications[2].recipient = notifications[1].recipient
  /\ ~notifications[2].is_read

\* C23: a request without credential to create, update or delete a post,
\* like, unlike, follow, unfollow, comment or mark-all-read is answered 401
\* and changes no table; a list of the posts and a read of an existing post
\* without credential are answered 200.
C23_Unauthenticated ==
  [][(resp'.user = Anonymous /\ resp'.op \in AnonOps) =>
       IF resp'.op \in {"list_posts", "retrieve_post"}
         THEN /\ (resp'.op = "list_posts" \/ PostExists(posts, resp'.target))
                   => resp'.status = HTTP_200_OK
              /\ resp'.op = "list_posts" =>
                   {resp'.target[i] : i \in DOMAIN resp'.target} = DOMAIN posts
         ELSE /\ resp'.status = 401
              /\ UNCHANGED <<db, blogdb>>
    ]_vars

\* a like without credential was refused while a post, a Like and a
\* notification are stored
C23_Witness ==
  /\ resp.user = Anonymous
  /\ resp.op = "like"
  /\ resp.status = 401
  /\ PostExists(posts, resp.target)
  /\ likes # EmptyBag
  /\ notifications # <<>>

\* C24: a follow of B by A adds the edge A->B and an unfollow of B by A
\* removes it; neither changes the edge B->A nor any other edge, whoever it
\* involves.
C24_Directed ==
  [][\A a \in WideUsers, b \in WideUsers :
       (IsStep("follow", a, b) \/ IsStep("unfollow", a, b)) =>
         /\ \A r \in BagToSet(follows) \cup BagToSet(follows') :
              r # FollowRow(a, b) =>
                CopiesIn(r, follows') = CopiesIn(r, follows)
         /\ (IsStep("follow", a, b) /\ a # b) => IsFollowing(follows', a, b)
         /\ IsStep("unfollow", a, b) => ~IsFollowing(follows', a, b)
    ]_vars

\* A followed B while B does not follow A and a third user follows A
C24_Witness ==
  /\ resp.op = "follow"
  /\ resp.status = HTTP_200_OK
  /\ IsFollowing(follows, resp.user, resp.target)
  /\ ~IsFollowing(follows, resp.target, resp.user)
  /\ \E c \in users \ {resp.user, resp.target} :
       IsFollowing(follows, c, resp.user)

\* C27: a step adds one "started following you" notification with actor A
\* and recipient B exactly when it is a follow of B by A answered 200,
\* whether or not the edge A->B was there; no other step changes their
\* number, which therefore counts the successful follow calls.
C27_NotificationPerFollow ==
  [][\A a \in WideUsers, b \in WideUsers :
       Cardinality(FollowNotifs(notifications', a, b)) =
         Cardinality(FollowNotifs(notifications, a, b)) +
           (IF IsStep("follow", a, b) /\ resp'.status = HTTP_200_OK
              THEN 1 ELSE 0)
    ]_vars

\* A followed B, unfollowed and followed again: two notifications, one edge
C27_Witness ==
  /\ resp.op = "follow"
  /\ resp.status = HTTP_200_OK
  /\ BagCardinality(follows) = 1
  /\ IsFollowing(follows, resp.user, resp.target)
  /\ Len(notifications) = 2
  /\ \A i \in DOMAIN notifications :
       /\ notifications[i].actor = resp.user
       /\ notifications[i].recipient = resp.target

\* C25: in the blog application an edit or delete request for an existing
\* post by a logged-in user who is not its author is answered 403 and leaves
\* the posts as they were; a request of a client that is not logged in is
\* redirected to the login page and changes nothing; the author's GET of the
\* edit view is answered 200 with the form.
BlogEditOps ==
  {"blog_update_GET", "blog_update_POST", "blog_delete_GET",
   "blog_delete_POST"}

C26_NoSelfNotification ==
  \A i \in DOMAIN notifications :
    notifications[i].recipient # notifications[i].actor

\* the author of a post commented on it after another user had liked it
C26_Witness ==
  /\ resp.op = "create_comment"
  /\ resp.status = HTTP_201_CREATED
  /\ PostExists(posts, resp.target)
  /\ posts[resp.target].author = resp.user
  /\ \E j \in DOMAIN comments : comments[j].author = resp.user
  /\ \E i \in DOMAIN notifications : notifications[i].verb = "liked your post"

C29_References ==
  [][/\ \A r \in BagToSet(likes') :
          PostExists(posts', r.post) /\ r.user \in users'
     /\ \A j \in DOMAIN comments' :
          /\ PostExists(posts', comments'[j].post)
          /\ comments'[j].author \in users'
     /\ (resp'.op = "delete_post" /\ resp'.status = HTTP_204_NO_CONTENT) =>
          /\ ~PostExists(posts', resp'.target)
          /\ notifications' = notifications
    ]_vars

\* a post was deleted that had a Like and a comment, both notified: the two
\* notifications are stored, their targets are gone
C29_Witness ==
  /\ resp.op = "delete_post"
  /\ resp.status = HTTP_204_NO_CONTENT
  /\ \E i \in DOMAIN notifications :
       /\ notifications[i].content_type = "post"
       /\ notifications[i].object_id = resp.target
  /\ \E i \in DOMAIN notifications :
       /\ notifications[i].content_type = "comment"
       /\ \A j \in DOMAIN comments :
            comments[j].id # notifications[i].object_id

\* C30: a post answered 201 is stored with the requester as author,
\* whatever author the body names; the author of a stored post is the same
\* after every step, and every stored post has one registered user as
\* author.
C30_AuthorFixed ==
  [][/\ (resp'.op = "create_post" /\ resp'.status = HTTP_201_CREATED) =>
          /\ PostExists(posts', resp'.target)
          /\ ~PostExists(posts, resp'.target)
          /\ posts'[resp'.target].author = resp'.user
     /\ \A p \in DOMAIN posts :
          PostExists(posts', p) => posts'[p].author = posts[p].author
     /\ \A p \in DOMAIN posts' : posts'[p].author \in users'
    ]_vars

\* a user who is not the author changed the content of a post; its author
\* is still the one who created it
C30_Witness ==
  /\ resp.op = "update_post"
  /\ resp.status = HTTP_200_OK
  /\ PostExists(posts, resp.target)
  /\ posts[resp.target].author # resp.user
  /\ posts[resp.target].content = "b"

====
